---- MODULE Spec2Model ----
(***************************************************************************)
(* Model of client/src/index.ts: the connection bootstrapper that derives  *)
(* a WebSocket endpoint from document.documentURI, opens one connection    *)
(* and installs the open and message handlers.                             *)
(*                                                                         *)
(* Addresses are sequences of characters, so that the regular-expression   *)
(* replacement is computed as String.prototype.replace computes it.        *)
(* JavaScript values are records [t, s, props]: t is the type tag, s the   *)
(* JSON text of a primitive, props the own properties of an object.        *)
(***************************************************************************)
EXTENDS Naturals, Sequences, FiniteSets

VARIABLES
    documentURI,  \* the current page address (environment, fixed per page load)
    pc,           \* "load" before the IIFE has run, "running" after
    ws,           \* module-level handle: 0 is undefined, else an index of sockets
    sockets,      \* every WebSocket object constructed so far
    console,      \* the console output, in emission order
    events,       \* history: the events the transport has delivered, in order
    thrown        \* history: some handler invocation ended in an uncaught exception

vars == <<documentURI, pc, ws, sockets, console, events, thrown>>

\* Number of message events delivered per page load in the model.
MaxMessages == 2

-----------------------------------------------------------------------------
(* Character sequences *)

HTTP == <<"h", "t", "t", "p">>
SchemeSep == <<":", "/", "/">>
WsText == <<"w", "s">>

HasPrefix(str, p) == Len(p) <= Len(str) /\ SubSeq(str, 1, Len(p)) = p
HasSuffix(str, p) ==
    Len(p) <= Len(str) /\ SubSeq(str, Len(str) - Len(p) + 1, Len(str)) = p
Tail_n(str, n) == SubSeq(str, n + 1, Len(str))

\* /https?/ matches at position i: "http" there, then greedily an optional "s".
MatchAt(str, i) == i + 3 <= Len(str) /\ SubSeq(str, i, i + 3) = HTTP
MatchLen(str, i) == IF i + 4 <= Len(str) /\ str[i + 4] = "s" THEN 5 ELSE 4

FirstMatch(str) ==
    IF \E i \in 1..Len(str) : MatchAt(str, i)
    THEN CHOOSE i \in 1..Len(str) :
            MatchAt(str, i) /\ \A j \in 1..(i - 1) : ~MatchAt(str, j)
    ELSE 0

\* The same replacement with the g flag: every match is replaced.
RECURSIVE replaceAll(_)
replaceAll(str) ==
    LET i == FirstMatch(str) IN
    IF i = 0 THEN str
    ELSE SubSeq(str, 1, i - 1) \o WsText \o replaceAll(Tail_n(str, i + MatchLen(str, i) - 1))

\* str.replace(/https?/, 'ws'): the leftmost match only (no g flag).
replace(str) ==
    LET i == FirstMatch(str) IN
    IF i = 0 THEN str
    ELSE SubSeq(str, 1, i - 1) \o WsText \o Tail_n(str, i + MatchLen(str, i) - 1)

\* The endpoint with "ws" appended as a path segment of its own.
EndpointSlash(uri) == replace(uri) \o <<"/">> \o WsText

\* `${document.documentURI.replace(/https?/, 'ws')}ws`
Endpoint(uri) == replace(uri) \o WsText

-----------------------------------------------------------------------------
(* JavaScript values *)

Str(s) == [t |-> "string", s |-> s, props |-> <<>>]
Num(s) == [t |-> "number", s |-> s, props |-> <<>>]
Bool(s) == [t |-> "boolean", s |-> s, props |-> <<>>]
Null == [t |-> "null", s |-> "null", props |-> <<>>]
Undefined == [t |-> "undefined", s |-> "undefined", props |-> <<>>]
Obj(props) == [t |-> "object", s |-> "", props |-> props]
Prop(name, value) == [name |-> name, value |-> value]

HasProp(v, name) == \E i \in 1..Len(v.props) : v.props[i].name = name

\* v.name for a value that is neither null nor undefined.
GetProp(v, name) ==
    IF HasProp(v, name)
    THEN v.props[CHOOSE i \in 1..Len(v.props) : v.props[i].name = name].value
    ELSE Undefined

\* ToBoolean, as the ! operator applies it.
ToBoolean(v) ==
    CASE v.t = "undefined" -> FALSE
      [] v.t = "null" -> FALSE
      [] v.t = "boolean" -> v.s = "true"
      [] v.t = "number" -> v.s \notin {"0", "NaN"}
      [] v.t = "string" -> v.s /= ""
      [] OTHER -> TRUE

StringifyPrimitive(v) == IF v.t = "string" THEN "\"" \o v.s \o "\"" ELSE v.s

RECURSIVE StringifyProps(_)
StringifyProps(props) ==
    IF props = <<>> THEN ""
    ELSE "\"" \o Head(props).name \o "\":" \o StringifyPrimitive(Head(props).value)
         \o (IF Len(props) > 1 THEN "," ELSE "") \o StringifyProps(Tail(props))

\* JSON.stringify(v) for primitives and for flat objects.
JSONStringify(v) ==
    IF v.t = "object" THEN "{" \o StringifyProps(v.props) \o "}"
    ELSE StringifyPrimitive(v)

-----------------------------------------------------------------------------
(* The script *)

\* The flag switched off.
DebugOff == FALSE

DEBUG == TRUE

LogEntry(method, text) == [method |-> method, text |-> text]

EstablishedText == "Websocket connection established!"
InvalidText(data) == "Invalid packet recieved: " \o JSONStringify(data)
PacketText(data) == "Packet recieved: " \o JSONStringify(data)

\* What one handler invocation does: the console calls it makes, in order,
\* and whether it ends in an uncaught exception.
Outcome(logs, exc) == [logs |-> logs, thrown |-> exc]

\* The open handler reporting through console.error.
onopenError == Outcome(<<LogEntry("error", EstablishedText)>>, FALSE)

\* ws.onopen
onopen == Outcome(<<LogEntry("log", EstablishedText)>>, FALSE)

\* The validation as a presence test: 'packet_type' in e.data.
onmessagePresence(data) ==
    IF data.t \in {"null", "undefined"} THEN Outcome(<<>>, TRUE)
    ELSE Outcome(
            (IF ~HasProp(data, "packet_type")
             THEN <<LogEntry("error", InvalidText(data))>> ELSE <<>>)
            \o (IF DEBUG THEN <<LogEntry("log", PacketText(data))>> ELSE <<>>),
            FALSE)

\* The debug trace as the else branch of the validation.
onmessageElse(data) ==
    IF data.t \in {"null", "undefined"} THEN Outcome(<<>>, TRUE)
    ELSE Outcome(
            IF ~ToBoolean(GetProp(data, "packet_type"))
            THEN <<LogEntry("error", InvalidText(data))>>
            ELSE IF DEBUG THEN <<LogEntry("log", PacketText(data))>> ELSE <<>>,
            FALSE)

\* The validation raising an exception instead of logging.
onmessageThrow(data) ==
    IF data.t \in {"null", "undefined"} THEN Outcome(<<>>, TRUE)
    ELSE IF ~ToBoolean(GetProp(data, "packet_type")) THEN Outcome(<<>>, TRUE)
    ELSE Outcome(IF DEBUG THEN <<LogEntry("log", PacketText(data))>> ELSE <<>>, FALSE)

\* The two statements of the handler in the opposite order.
onmessageDebugFirst(data) ==
    IF data.t \in {"null", "undefined"} THEN Outcome(<<>>, TRUE)
    ELSE Outcome(
            (IF DEBUG THEN <<LogEntry("log", PacketText(data))>> ELSE <<>>)
            \o (IF ~ToBoolean(GetProp(data, "packet_type"))
                THEN <<LogEntry("error", InvalidText(data))>> ELSE <<>>),
            FALSE)

\* ws.onmessage; e.data.packet_type throws a TypeError on null and undefined.
onmessage(data) ==
    IF data.t \in {"null", "undefined"} THEN Outcome(<<>>, TRUE)
    ELSE Outcome(
            (IF ~ToBoolean(GetProp(data, "packet_type"))
             THEN <<LogEntry("error", InvalidText(data))>> ELSE <<>>)
            \o (IF DEBUG THEN <<LogEntry("log", PacketText(data))>> ELSE <<>>),
            FALSE)

\* new WebSocket(url), with both handlers then assigned by the IIFE.
NewWebSocket(url) ==
    [url |-> url, readyState |-> "CONNECTING",
     onopen |-> "onopen", onmessage |-> "onmessage"]

-----------------------------------------------------------------------------
(* Environment: page addresses and inbound payloads *)

Schemes == {HTTP, HTTP \o <<"s">>, <<"f", "i", "l", "e">>}

Rests ==
    { <<"a", "/">>,
      <<"a", "/", "p">>,
      <<"a", ":", "8", "/", "x", "/">>,
      <<"a", "/">> \o HTTP,
      HTTP \o <<"s", ".", "i", "o", "/", "q">> }

URIs == {sch \o SchemeSep \o rest : sch \in Schemes, rest \in Rests}

PacketTypes == {Str("X"), Num("1"), Str(""), Num("0"), Bool("false"), Null}

\* Structured payloads with an optional packet_type field, and a text frame.
Payloads ==
    {Obj(<<>>), Obj(<<Prop("id", Num("7"))>>), Str("ping")}
    \cup {Obj(<<Prop("packet_type", v)>>) : v \in PacketTypes}
    \cup {Obj(<<Prop("packet_type", Str("X")), Prop("id", Num("7"))>>)}

-----------------------------------------------------------------------------
(* State machine *)

Event(type, data) == [type |-> type, data |-> data]

\* The console calls of one handler invocation, tagged with the event's index.
Emit(logs, ev) ==
    [i \in 1..Len(logs) |->
        [method |-> logs[i].method, text |-> logs[i].text, ev |-> ev]]

Messages == Len(SelectSeq(events, LAMBDA e : e.type = "message"))

Init ==
    /\ documentURI \in URIs
    /\ pc = "load"
    /\ ws = 0
    /\ sockets = <<>>
    /\ console = <<>>
    /\ events = <<>>
    /\ thrown = FALSE

\* The IIFE: construct the socket, assign it to ws, install both handlers.
Bootstrap ==
    /\ pc = "load"
    /\ sockets' = Append(sockets, NewWebSocket(Endpoint(documentURI)))
    /\ ws' = Len(sockets) + 1
    /\ pc' = "running"
    /\ UNCHANGED <<documentURI, console, events, thrown>>

\* The handler opens a further connection and rebinds ws to it.
DispatchOpenReconnect ==
    \E i \in 1..Len(sockets) :
        /\ sockets[i].readyState = "CONNECTING"
        /\ sockets[i].onopen = "onopen"
        /\ sockets' = Append([sockets EXCEPT ![i].readyState = "OPEN"],
                             NewWebSocket(Endpoint(documentURI)))
        /\ ws' = Len(sockets) + 1
        /\ events' = Append(events, Event("open", Undefined))
        /\ console' = console \o Emit(onopen.logs, Len(events) + 1)
        /\ thrown' = (thrown \/ onopen.thrown)
        /\ UNCHANGED <<documentURI, pc>>

\* The transport establishes the connection and fires the open event once.
DispatchOpen ==
    \E i \in 1..Len(sockets) :
        /\ sockets[i].readyState = "CONNECTING"
        /\ sockets' = [sockets EXCEPT ![i].readyState = "OPEN"]
        /\ events' = Append(events, Event("open", Undefined))
        /\ IF sockets[i].onopen = "onopen"
           THEN /\ console' = console \o Emit(onopen.logs, Len(events) + 1)
                /\ thrown' = (thrown \/ onopen.thrown)
           ELSE UNCHANGED <<console, thrown>>
        /\ UNCHANGED <<documentURI, pc, ws>>

\* The transport delivers one inbound message to an open connection.
DispatchMessage ==
    \E i \in 1..Len(sockets), data \in Payloads :
        /\ sockets[i].readyState = "OPEN"
        /\ Messages < MaxMessages
        /\ events' = Append(events, Event("message", data))
        /\ IF sockets[i].onmessage = "onmessage"
           THEN /\ console' = console \o Emit(onmessage(data).logs, Len(events) + 1)
                /\ thrown' = (thrown \/ onmessage(data).thrown)
           ELSE UNCHANGED <<console, thrown>>
        /\ UNCHANGED <<documentURI, pc, ws, sockets>>

\* The connection fails or is dropped; the script installs no handler for it.
ConnectionClosed ==
    \E i \in 1..Len(sockets) :
        /\ sockets[i].readyState \in {"CONNECTING", "OPEN"}
        /\ sockets' = [sockets EXCEPT ![i].readyState = "CLOSED"]
        /\ UNCHANGED <<documentURI, pc, ws, console, events, thrown>>

Next ==
    \/ Bootstrap
    \/ DispatchOpen
    \/ DispatchMessage
    \/ ConnectionClosed

Spec == Init /\ [][Next]_vars

-----------------------------------------------------------------------------
(* Vocabulary of the properties *)

Running == pc = "running"
Url == sockets[ws].url

\* The console entries one event produced, without the event tag.
LogsOf(k) ==
    LET own == SelectSeq(console, LAMBDA l : l.ev = k) IN
    [i \in 1..Len(own) |-> LogEntry(own[i].method, own[i].text)]

MessageEvents == {k \in 1..Len(events) : events[k].type = "message"}
OpenEvents == {k \in 1..Len(events) : events[k].type = "open"}

ErrorLogged(k) ==
    \E i \in 1..Len(console) : console[i].ev = k /\ console[i].method = "error"

\* The payload has no packet_type field at all.
LacksPacketType(data) == ~HasProp(data, "packet_type")

FalsyValues == {Str(""), Num("0"), Bool("false"), Null}

\* The payload has a packet_type field holding "", 0, false or null.
FalsyPacketType(data) ==
    HasProp(data, "packet_type") /\ GetProp(data, "packet_type") \in FalsyValues

-----------------------------------------------------------------------------
(* Endpoint address *)

HttpsPrefix == HTTP \o <<"s">> \o SchemeSep
HttpPrefix == HTTP \o SchemeSep

\* C1 (as stated): for a page address beginning with https://, the endpoint
\* passed to the WebSocket constructor is wss:// followed by the unchanged
\* remainder of the address and the literal suffix ws.
C1_HttpsMapsToWss ==
    (Running /\ HasPrefix(documentURI, HttpsPrefix)) =>
        Url = <<"w", "s", "s">> \o SchemeSep
              \o Tail_n(documentURI, Len(HttpsPrefix)) \o WsText

\* C2: for a page address http:// + rest the endpoint is ws:// + rest + ws,
\* with rest preserved character for character, also when rest itself
\* contains the text http or https.
C2_HttpMapsToWs ==
    (Running /\ HasPrefix(documentURI, HttpPrefix)) =>
        Url = WsText \o SchemeSep \o Tail_n(documentURI, Len(HttpPrefix)) \o WsText

\* An http:// page whose remainder contains the text http has been bootstrapped.
C2_Witness ==
    /\ Running
    /\ HasPrefix(documentURI, HttpPrefix)
    /\ FirstMatch(Tail_n(documentURI, Len(HttpPrefix))) > 0

\* C3 (as stated): the endpoint is the scheme-substituted page address
\* followed by /ws, whether or not the page address already ends in /.
C3_SlashWsAppended ==
    Running => Url = replace(documentURI) \o <<"/", "w", "s">>

\* C3 (amended): the endpoint is the scheme-substituted page address followed
\* by ws with no separator added, so it ends in the path segment /ws exactly
\* when the page address ends in /.
C3_WsAppendedNoSlash ==
    Running =>
        /\ Len(Url) = Len(replace(documentURI)) + 2
        /\ SubSeq(Url, 1, Len(Url) - 2) = replace(documentURI)
        /\ HasSuffix(Url, WsText)
        /\ HasSuffix(Url, <<"/", "w", "s">>) <=> HasSuffix(documentURI, <<"/">>)

\* A page whose address does not end in / has been bootstrapped.
C3_Witness == Running /\ ~HasSuffix(documentURI, <<"/">>)

-----------------------------------------------------------------------------
(* Message handling *)

\* C4 (as stated): an error log is emitted for a message if and only if its
\* payload has no packet_type field; a present field, whatever its value,
\* produces no error log.
C4_ErrorIffFieldAbsent ==
    \A k \in MessageEvents : ErrorLogged(k) <=> LacksPacketType(events[k].data)

\* C4 (amended): the error log Invalid packet recieved: <serialized payload>
\* is emitted if and only if packet_type is absent or holds a falsy value
\* (empty string, 0, false, null); a truthy packet_type produces no error log.
C4_ErrorIffAbsentOrFalsy ==
    \A k \in MessageEvents :
        LET data == events[k].data
            invalid == LacksPacketType(data) \/ FalsyPacketType(data) IN
        /\ ErrorLogged(k) <=> invalid
        /\ invalid => Head(LogsOf(k)) = LogEntry("error", InvalidText(data))

\* A message with a present but falsy packet_type and one with a truthy
\* packet_type have both been handled.
C4_Witness ==
    /\ \E k \in MessageEvents : FalsyPacketType(events[k].data)
    /\ \E k \in MessageEvents :
            /\ HasProp(events[k].data, "packet_type")
            /\ ~FalsyPacketType(events[k].data)

\* C5: a message whose payload has no packet_type field produces exactly one
\* error log and exactly one debug log, both carrying the serialized payload.
C5_InvalidLogsBoth ==
    \A k \in MessageEvents :
        LacksPacketType(events[k].data) =>
            LET own == LogsOf(k)
                errs == {i \in 1..Len(own) : own[i].method = "error"}
                dbgs == {i \in 1..Len(own) : own[i].method = "log"} IN
            /\ Cardinality(errs) = 1
            /\ Cardinality(dbgs) = 1
            /\ \A i \in errs : own[i].text = InvalidText(events[k].data)
            /\ \A i \in dbgs : own[i].text = PacketText(events[k].data)

\* A message without packet_type has been handled.
C5_Witness == \E k \in MessageEvents : LacksPacketType(events[k].data)

\* The payload carries a packet_type holding a non-empty value.
NonEmptyPacketType(data) ==
    HasProp(data, "packet_type") /\ GetProp(data, "packet_type") \in {Str("X"), Num("1")}

DebugLogs == SelectSeq(console, LAMBDA l : l.method = "log" /\ l.ev \in MessageEvents)

\* C6: a message whose packet_type holds a non-empty value produces no error
\* log and exactly one debug log Packet recieved: <serialized payload>; after
\* n messages exactly n debug logs have been emitted.
C6_ValidLogsDebugOnly ==
    /\ \A k \in MessageEvents :
            NonEmptyPacketType(events[k].data) =>
                LogsOf(k) = <<LogEntry("log", PacketText(events[k].data))>>
    /\ Len(DebugLogs) = Cardinality(MessageEvents)

\* Two messages have been handled, one of them with a non-empty packet_type.
C6_Witness ==
    /\ Cardinality(MessageEvents) >= 2
    /\ \E k \in MessageEvents : NonEmptyPacketType(events[k].data)

-----------------------------------------------------------------------------
(* Open event, handle and ordering *)

\* C7: each connection-open event emits exactly one info log with the text
\* Websocket connection established! and no error or Packet recieved log.
C7_OpenLogsOnce ==
    \A k \in OpenEvents : LogsOf(k) = <<LogEntry("log", "Websocket connection established!")>>

\* The open event has been delivered.
C7_Witness == OpenEvents /= {}

HandlersInstalled(sock) == sock.onopen = "onopen" /\ sock.onmessage = "onmessage"

\* C8: the message handler never throws; after an invalid message the handle
\* and both handlers are unchanged, and every message, also one that follows
\* an invalid one, is logged as its own payload alone determines.
C8_InvalidOnlyLogged ==
    Running =>
        /\ ~thrown
        /\ ws = 1
        /\ HandlersInstalled(sockets[ws])
        /\ \A k \in MessageEvents :
              LogsOf(k) =
                  (IF ErrorLogged(k)
                   THEN <<LogEntry("error", InvalidText(events[k].data))>> ELSE <<>>)
                  \o <<LogEntry("log", PacketText(events[k].data))>>

\* An invalid message has been handled and another message after it.
C8_Witness ==
    \E k \in MessageEvents :
        /\ ErrorLogged(k)
        /\ \E j \in MessageEvents : j > k

\* C9: after startup exactly one connection has been created; ws is bound to
\* it and no open or message event rebinds ws, opens another connection or
\* replaces the installed handlers.
C9_SingleConnection ==
    Running =>
        /\ Len(sockets) = 1
        /\ ws = 1
        /\ sockets[1].url = Endpoint(documentURI)
        /\ HandlersInstalled(sockets[1])

\* The open event and a message event have both been delivered.
C9_Witness == Running /\ OpenEvents /= {} /\ MessageEvents /= {}

\* C10: console output follows event delivery order: every log of an earlier
\* event precedes every log of a later event, and for a message without
\* packet_type the error log precedes the debug log.
C10_LogsFollowEventOrder ==
    /\ \A i, j \in 1..Len(console) : i < j => console[i].ev <= console[j].ev
    /\ \A k \in MessageEvents :
            LacksPacketType(events[k].data) =>
                \A i, j \in 1..Len(console) :
                    (/\ console[i].ev = k /\ console[j].ev = k
                     /\ console[i].method = "error" /\ console[j].method = "log")
                    => i < j

\* The open event and then two messages, the first without packet_type, have
\* been delivered and logged.
C10_Witness ==
    /\ Len(events) >= 3
    /\ \E k \in MessageEvents :
            /\ LacksPacketType(events[k].data)
            /\ \E j \in MessageEvents : j > k
    /\ Len(console) >= 4

====
